---- MODULE Spec2Model ----
(***************************************************************************)
(* Model of omo's Emulator (src/omo/src/emulator.rs): the permanent memory *)
(* and code hooks installed by Emulator::new, run, run_until, save, and    *)
(* EmulatorState::state_root.                                              *)
(*                                                                         *)
(* The CPU engine (crate::engine, a wrapper of unicorn) is not part of the *)
(* source file; it is modelled here by a small big-endian machine running  *)
(* a fixed program.  Its hook protocol is unicorn's: a code hook fires     *)
(* before an instruction executes, MEM_READ fires before a load reads,     *)
(* MEM_READ_AFTER after it has read, MEM_WRITE before a store writes, and  *)
(* hooks fire in the order they were added.                                *)
(*                                                                         *)
(* Addresses are scaled to a 16-bit space so that every number stays       *)
(* inside TLC's integers: u32::MAX is 0xffff here and the 32-bit default   *)
(* exitpoint 0x8fffffff is 0x8fff.                                         *)
(***************************************************************************)
EXTENDS Integers, Sequences, FiniteSets, TLC

VARIABLES
    mem,        \* engine live memory: mapped byte address -> byte
    mirror,     \* Shadow Memory Mirror (state.memory): word address -> 4 bytes
    regs,       \* engine general registers: register id -> value
    pc,         \* engine program counter
    steps,      \* state.steps, the Step Counter
    hooks,      \* hooks installed on the engine, in the order they were added
    debug,      \* whether the build has debug assertions (debug_assert_eq!)
    panicked,   \* a debug assertion failed: the process has aborted
    retired,    \* history: instructions the engine has retired
    written,    \* history: byte addresses of the WRITE events seen by the permanent hook
    diverged,   \* history: the permanent hook has seen the mirror differ from the engine
    call,       \* history: the arguments of the last call, the machine at its start, what the engine did
    result,     \* what the last call returned
    rM,         \* state_root input: a memory image
    rM2,        \* state_root input: a second memory image
    rR,         \* state_root input: a register file
    rOrder,     \* state_root input: the order the memory entries are inserted in
    rOut,       \* state_root results
    oChange,    \* output_to input: the StateChange exported
    oFail,      \* output_to input: the I/O operation that fails, "none" when none does
    oDisk,      \* the output directory on disk
    oOut,       \* how output_to ended
    eA,         \* register encoding input: a (register identifier, value) pair
    eB,         \* register encoding input: a second pair
    eOut        \* the combined words of the two pairs

emuVars ==
    <<mem, mirror, regs, pc, steps, hooks, debug, panicked, retired, written, diverged, call,
      result>>
rootVars == <<rM, rM2, rR, rOrder, rOut>>
outVars == <<oChange, oFail, oDisk, oOut>>
encVars == <<eA, eB, eOut>>
vars ==
    <<mem, mirror, regs, pc, steps, hooks, debug, panicked, retired, written, diverged, call,
      result, rM, rM2, rR, rOrder, rOut, oChange, oFail, oDisk, oOut, eA, eB, eOut>>

---------------------------------------------------------------------------
(* Bounds of the model *)

\* calls are made only while the step counter stays within MaxSteps
MaxSteps == 4
\* the largest count argument of run and run_until
MaxCount == 1
\* the most instructions a run with a timeout gets through before the timer fires
MaxCut == 0

---------------------------------------------------------------------------
(* Bytes and words *)

\* u32::MAX as u64, scaled to the model's 16-bit address space
U32Max == 65535

\* (value as u32).to_be_bytes()
to_be_bytes(v) ==
    << (v \div 16777216) % 256, (v \div 65536) % 256, (v \div 256) % 256, v % 256 >>

\* u32::from_be_bytes
from_be_bytes(b) == ((b[1] * 256 + b[2]) * 256 + b[3]) * 256 + b[4]

\* the big-endian value of a sequence of 1, 2 or 4 bytes
RECURSIVE BytesValue(_)
BytesValue(b) ==
    IF Len(b) = 0 THEN 0 ELSE BytesValue(SubSeq(b, 1, Len(b) - 1)) * 256 + b[Len(b)]

\* &(value as u32).to_be_bytes().as_slice()[(4 - size)..]
LowBytes(value, size) == SubSeq(to_be_bytes(value), 4 - size + 1, 4)

WordOf(addr) == addr - (addr % 4)

\* the element of a one-element set; { e(x) : x \in {v} } computes v once and
\* hands its value to e
Only(S) == CHOOSE x \in S : TRUE

---------------------------------------------------------------------------
(* MemoryState: the sparse, word-keyed image held by the Shadow Memory      *)
(* Mirror and copied into snapshots                                         *)

\* the byte the image holds at a byte address (0 where nothing is materialised)
MirrorByte(ms, a) ==
    IF WordOf(a) \in DOMAIN ms THEN ms[WordOf(a)][(a % 4) + 1] ELSE 0

\* MemoryState::read_bytes(addr, size)
read_bytes(ms, addr, size) == [i \in 1..size |-> MirrorByte(ms, addr + i - 1)]

\* MemoryState::write_bytes: materialises every word the bytes touch
write_bytes(ms, addr, bytes) ==
    LET touched == { WordOf(a) : a \in addr..(addr + Len(bytes) - 1) }
        byteAt(a) == IF a >= addr /\ a < addr + Len(bytes)
                     THEN bytes[a - addr + 1]
                     ELSE MirrorByte(ms, a)
    IN [w \in DOMAIN ms \cup touched |->
            IF w \in touched THEN [i \in 1..4 |-> byteAt(w + i - 1)] ELSE ms[w]]

\* MemoryState::write_value(addr, size, value): the low size bytes, big-endian
write_value(ms, addr, size, value) == write_bytes(ms, addr, LowBytes(value, size))

---------------------------------------------------------------------------
(* The loaded program and the memory map of the engine *)

DataBase == 4096
Unmapped == 8192

RegIds == {1, 2}
PcReg == 3

Ins(op, r, addr, addr2, size, imm) ==
    [op |-> op, r |-> r, addr |-> addr, addr2 |-> addr2, size |-> size, imm |-> imm]

\* one instruction per word, the first at address 0
Program == <<
    Ins("addi", 1, 0, 0, 0, 42),                      \* 0:  r1 := r1 + 0x2A
    Ins("store", 1, DataBase, 0, 1, 0),               \* 4:  byte [0x1000] := r1
    Ins("load", 2, DataBase, 0, 1, 0),                \* 8:  r2 := byte [0x1000]
    Ins("copy", 0, DataBase, DataBase + 6, 2, 0),     \* 12: half [0x1006] := half [0x1000]
    Ins("load", 2, Unmapped, 0, 4, 0)                 \* 16: a load from unmapped memory
>>

CodeAddrs == { 4 * (i - 1) : i \in 1..Len(Program) }
InstrAt(a) == Program[(a \div 4) + 1]

\* the instruction word the loader wrote for an instruction
Encode(i) ==
    LET n == CASE i.op = "addi" -> 1 [] i.op = "store" -> 2 [] i.op = "load" -> 3
               [] i.op = "copy" -> 4 [] OTHER -> 0
    IN << n, i.r, i.size, i.imm % 256 >>

CodeBytes == { a + k : a \in CodeAddrs, k \in 0..3 }
DataBytes == DataBase..(DataBase + 7)
Mapped == CodeBytes \cup DataBytes

\* engine memory after load: the instruction words, and zeroed data
LoadedMem ==
    [a \in Mapped |-> IF a \in CodeBytes THEN Encode(InstrAt(WordOf(a)))[(a % 4) + 1] ELSE 0]

\* the mirror after load: the loader's writes go to the engine and to the mirror
LoadedMirror == [w \in CodeAddrs |-> Encode(InstrAt(w))]

\* Engine::mem_read_as_vec on mapped memory
mem_read_as_vec(m, addr, size) == [i \in 1..size |-> m[addr + i - 1]]

IsMapped(addr, size) == \A a \in addr..(addr + size - 1) : a \in Mapped

\* the engine's own store of the low size bytes of a value, big-endian
mem_store(m, addr, size, value) ==
    [a \in DOMAIN m |->
        IF a >= addr /\ a < addr + size THEN LowBytes(value, size)[a - addr + 1] ELSE m[a]]

---------------------------------------------------------------------------
(* Hooks *)

\* HookType bits, named by the MemType of the events each delivers
MEM_WRITE == {"WRITE"}
MEM_READ == {"READ"}
MEM_FETCH == {"FETCH"}
MEM_READ_AFTER == {"READ_AFTER"}
\* HookType::MEM_VALID = MEM_READ | MEM_WRITE | MEM_FETCH
MEM_VALID == MEM_READ \cup MEM_WRITE \cup MEM_FETCH

Hook(id, kind, types, begin, end) ==
    [id |-> id, kind |-> kind, types |-> types, begin |-> begin, end |-> end, buf |-> << >>]

\* Emulator::new: the permanent memory hook
MirrorHook == Hook(1, "mirror", MEM_WRITE \cup MEM_READ_AFTER, 0, U32Max)

\* Emulator::new: the permanent code hook
CodeHook == Hook(2, "code", {}, 0, U32Max)

\* run_until: the Access Logger's hook, with the buffer its closure holds
LoggerHook(id) == Hook(id, "logger", MEM_READ_AFTER \cup MEM_WRITE \cup MEM_VALID, 0, U32Max)

HookIds(hs) == { hs[i].id : i \in 1..Len(hs) }

\* the handle add_mem_hook returns: one no installed hook has
FreshHandle(hs) == CHOOSE n \in 1..(Len(hs) + 1) : n \notin HookIds(hs)

MemAccess(write, addr, size, value) ==
    [write |-> write, addr |-> addr, size |-> size, value |-> value]

\* the permanent memory hook that forgets to mirror a WRITE
MirrorCallbackNoWrite(m, type, addr, size, value) ==
    IF type = "WRITE"
         /\ m.debug
         /\ mem_read_as_vec(m.mem, addr, size) # read_bytes(m.mirror, addr, size)
    THEN [m EXCEPT !.panicked = TRUE]
    ELSE m

\* the closure of the permanent memory hook; debug_assert_eq! compares, and
\* panics on a difference, only in a build with debug assertions
MirrorCallback(m, type, addr, size, value) ==
    CASE type = "WRITE" ->
            LET differs == mem_read_as_vec(m.mem, addr, size) # read_bytes(m.mirror, addr, size)
            IN IF m.debug /\ differs
               THEN [m EXCEPT !.panicked = TRUE, !.diverged = TRUE]
               ELSE [m EXCEPT !.mirror = write_value(@, addr, size, value),
                              !.diverged = @ \/ differs]
      [] type = "READ_AFTER" ->
            LET differs == LowBytes(value, size) # read_bytes(m.mirror, addr, size)
            IN IF m.debug /\ differs
               THEN [m EXCEPT !.panicked = TRUE, !.diverged = TRUE]
               ELSE [m EXCEPT !.diverged = @ \/ differs]
      [] OTHER -> m

\* the closure of the permanent code hook
CodeCallback(m) == [m EXCEPT !.steps = @ + 1]

\* the closure of the Access Logger's hook, on its buffer
LoggerCallback(buf, type, addr, size, value) ==
    CASE type = "WRITE" -> Append(buf, MemAccess(TRUE, addr, size, value))
      [] type \in {"READ_AFTER", "READ", "FETCH"} -> Append(buf, MemAccess(FALSE, addr, size, value))
      [] OTHER -> buf

\* the engine delivers a memory event to every hook subscribed to it, in the
\* order the hooks were added
RECURSIVE FireMemHooks(_, _, _, _, _, _)
FireMemHooks(m, i, type, addr, size, value) ==
    IF i > Len(m.hooks) \/ m.panicked THEN m
    ELSE LET h == m.hooks[i]
             hit == h.kind # "code" /\ type \in h.types /\ h.begin <= addr /\ addr <= h.end
         IN Only({ FireMemHooks(m1, i + 1, type, addr, size, value) :
                   m1 \in { IF ~hit THEN m
                            ELSE IF h.kind = "mirror"
                                 THEN MirrorCallback(m, type, addr, size, value)
                                 ELSE [m EXCEPT !.hooks[i].buf =
                                          LoggerCallback(@, type, addr, size, value)] } })

\* the engine calls every code hook before it executes the instruction at addr
RECURSIVE FireCodeHooks(_, _, _)
FireCodeHooks(m, i, addr) ==
    IF i > Len(m.hooks) THEN m
    ELSE LET h == m.hooks[i]
             hit == h.kind = "code" /\ h.begin <= addr /\ addr <= h.end
         IN Only({ FireCodeHooks(m1, i + 1, addr) :
                   m1 \in { IF hit THEN CodeCallback(m) ELSE m } })

\* whether some hook of the given kind sees an event of the type at the address
Observes(hs, kind, type, addr) ==
    \E i \in 1..Len(hs) :
        hs[i].kind = kind /\ type \in hs[i].types /\ hs[i].begin <= addr /\ addr <= hs[i].end

---------------------------------------------------------------------------
(* The engine: one instruction, and emu_start *)

\* a load: READ before the engine reads, READ_AFTER with the value it read;
\* a load from unmapped memory raises an error and delivers neither
Load(m, addr, size) ==
    IF ~IsMapped(addr, size) THEN [m EXCEPT !.err = "READ_UNMAPPED"]
    ELSE Only({ [m2 EXCEPT !.val = BytesValue(mem_read_as_vec(m2.mem, addr, size))] :
                m2 \in { FireMemHooks(m1, 1, "READ_AFTER", addr, size,
                                      BytesValue(mem_read_as_vec(m1.mem, addr, size))) :
                         m1 \in { FireMemHooks(m, 1, "READ", addr, size, 0) } } })

\* a store to mapped memory: WRITE before the engine writes; old keeps, as
\* history, the bytes the store replaced
Store(m, addr, size, value) ==
    Only({ IF m1.panicked THEN m1
           ELSE [m1 EXCEPT !.mem = mem_store(@, addr, size, BytesValue(LowBytes(value, size))),
                           !.old = mem_read_as_vec(m.mem, addr, size),
                           !.written = IF Observes(m.hooks, "mirror", "WRITE", addr)
                                       THEN @ \cup (addr..(addr + size - 1)) ELSE @] :
           m1 \in { FireMemHooks(m, 1, "WRITE", addr, size,
                                 BytesValue(LowBytes(value, size))) } })

\* the effect of one instruction
Exec(m, ins) ==
    CASE ins.op = "addi" -> [m EXCEPT !.regs[ins.r] = @ + ins.imm]
      [] ins.op = "store" -> Store(m, ins.addr, ins.size, m.regs[ins.r])
      [] ins.op = "load" ->
            Only({ IF m1.err # "" \/ m1.panicked THEN m1
                   ELSE [m1 EXCEPT !.regs[ins.r] = m1.val] :
                   m1 \in { Load(m, ins.addr, ins.size) } })
      [] ins.op = "copy" ->
            Only({ IF m1.err # "" \/ m1.panicked THEN m1
                   ELSE Store(m1, ins.addr2, ins.size, m1.val) :
                   m1 \in { Load(m, ins.addr, ins.size) } })
      [] OTHER -> m

\* the engine executes the instruction at pc: code hooks first, then the
\* instruction; it retires unless it raised an error
Step(m) ==
    Only({ IF m2.err # "" \/ m2.panicked THEN m2
           ELSE [m2 EXCEPT !.pc = @ + 4, !.retired = @ + 1] :
           m2 \in { Exec(m1, InstrAt(m.pc)) : m1 \in { FireCodeHooks(m, 1, m.pc) } } })

Stopped(m, stop, n) == [m |-> m, stop |-> stop, n |-> n]

\* the engine's loop: it stops without an error after count instructions
\* (count > 0), at the exit address, or when the timer fires (cut >= 0: after cut
\* instructions); it stops with an error on a fetch from unmapped memory or an
\* instruction's error
RECURSIVE RunLoop(_, _, _, _, _)
RunLoop(m, until, cut, count, n) ==
    IF count > 0 /\ n = count THEN Stopped(m, "count", n)
    ELSE IF m.pc = until THEN Stopped(m, "exit", n)
    ELSE IF cut >= 0 /\ n = cut THEN Stopped(m, "timeout", n)
    ELSE IF m.pc \notin CodeAddrs THEN Stopped([m EXCEPT !.err = "FETCH_UNMAPPED"], "error", n)
    ELSE IF m.steps >= MaxSteps THEN Stopped(m, "bound", n)
    ELSE Only({ IF m1.panicked THEN Stopped(m1, "panic", n)
                ELSE IF m1.err # "" THEN Stopped(m1, "error", n)
                ELSE RunLoop(m1, until, cut, count, n + 1) :
                m1 \in { Step(m) } })

\* Engine::emu_start(begin, until, timeout, count)
emu_start(m, begin, until, cut, count) ==
    Only({ RunLoop(m0, until, cut, count, 0) : m0 \in { [m EXCEPT !.pc = begin, !.err = ""] } })

\* Engine::pointer_size of the 32-bit target
pointer_size == 4

\* default_exitpoint, in the scaled address space (the upper half of each 32-bit
\* value: 0xfffff is 0x000f, 0x8fffffff is 0x8fff, the 64-bit maximum is the top)
default_exitpoint(point_size) ==
    CASE point_size = 2 -> 15
      [] point_size = 4 -> 36863
      [] point_size = 8 -> 65535

\* exitpoint.unwrap_or_else(|| default_exitpoint(..)); None is -1
Exitpoint(exit) == IF exit = -1 THEN default_exitpoint(pointer_size) ELSE exit

\* timeout.unwrap_or_default(), by its effect on a run of count instructions
\* (count = 0: no limit): the number of instructions the run gets through before
\* the timer fires, or -1 when it never fires (no timeout was given, or the run
\* ends first)
Cuts(count) == {-1} \cup { c \in 0..MaxCut : count = 0 \/ c < count }

---------------------------------------------------------------------------
(* Snapshots *)

\* Engine::save_registers
save_registers(m) == [r \in RegIds \cup {PcReg} |-> IF r = PcReg THEN m.pc ELSE m.regs[r]]

\* Emulator::save
save(m) == [regs |-> save_registers(m), memories |-> m.mirror, steps |-> m.steps]

NoState == [regs |-> << >>, memories |-> << >>, steps |-> 0]

\* a snapshot that moves the mirror out of the emulator instead of cloning it
SavedByTaking(m) == [m EXCEPT !.mirror = << >>]

\* Emulator::save(&self): the emulator as save leaves it; save_registers reads
\* the engine and snapshot() clones the state
Saved(m) == m

---------------------------------------------------------------------------
(* Emulator::run and Emulator::run_until *)

Machine ==
    [mem |-> mem, mirror |-> mirror, regs |-> regs, pc |-> pc, steps |-> steps,
     hooks |-> hooks, debug |-> debug, panicked |-> panicked, retired |-> retired,
     written |-> written, diverged |-> diverged, err |-> "", val |-> 0, old |-> << >>]

\* what a call returned: status is "ok" (Ok), "err" (Err(EmulatorError)) or
\* "abort" (the process panicked: nothing is returned)
Res(op, status, err, value, sb, sa, step, access) ==
    [op |-> op, status |-> status, err |-> err, value |-> value,
     state_before |-> sb, state_after |-> sa, step |-> step, access |-> access]

Failed(op, r) ==
    Res(op, IF r.stop = "panic" THEN "abort" ELSE "err", r.m.err, 0, NoState, NoState, 0, << >>)

\* a `?` that lets an engine error through: only a panic ends the call
FailingOnPanicOnly(r) == r.stop = "panic"

\* the `?` after an engine call: an Err ends the call (a panic ends the process)
Failing(r) == r.stop \in {"error", "panic"}

\* what the engine did during a call; traced_old: the bytes the traced
\* instruction's store replaced in engine memory, << >> when it stored nothing
Hist(prefix_n, prefix_stop, traced_pc, traced_n, traced_stop) ==
    [prefix_n |-> prefix_n, prefix_stop |-> prefix_stop, traced_pc |-> traced_pc,
     traced_n |-> traced_n, traced_stop |-> traced_stop, traced_old |-> << >>]

NoHist == Hist(0, "none", -1, 0, "none")

Out(m, res, hist, bound) == [m |-> m, res |-> res, hist |-> hist, bound |-> bound]

\* Emulator::run
run(m, entrypoint, exit, cut, count) ==
    Only({ Out(r.m,
               IF Failing(r) THEN Failed("run", r)
               ELSE Res("run", "ok", "", r.m.steps, NoState, NoState, 0, << >>),
               Hist(r.n, r.stop, -1, 0, "none"),
               r.stop = "bound") :
           r \in { emu_start(m, entrypoint, Exitpoint(exit), cut, count) } })

\* run_until: the untraced prefix, which runs even for count = 0
StateBeforeAlways(m, entrypoint, exitpoint, cut, count) ==
    emu_start(m, entrypoint, exitpoint, cut, count)

\* run_until: the untraced prefix that runs one instruction too many
StateBeforeOneMore(m, entrypoint, exitpoint, cut, count) ==
    IF count = 0 THEN Stopped(m, "none", 0)
    ELSE emu_start(m, entrypoint, exitpoint, cut, count + 1)

\* run_until: a count of zero that moves the engine to the entrypoint, so that
\* the traced instruction is the one at entrypoint
StateBeforeAtEntry(m, entrypoint, exitpoint, cut, count) ==
    IF count = 0 THEN Stopped([m EXCEPT !.pc = entrypoint], "none", 0)
    ELSE emu_start(m, entrypoint, exitpoint, cut, count)

\* run_until: the machine state_before is saved from
StateBefore(m, entrypoint, exitpoint, cut, count) ==
    IF count = 0 THEN Stopped(m, "none", 0)
    ELSE emu_start(m, entrypoint, exitpoint, cut, count)

\* run_until: a seeded entry that takes the entrypoint for the fetch address
SeedEntryAtEntry(m, entrypoint) ==
    MemAccess(FALSE, entrypoint, 4, from_be_bytes(mem_read_as_vec(m.mem, m.pc, 4)))

\* run_until: the seeded fetch entry
SeedEntry(m, entrypoint) ==
    MemAccess(FALSE, m.pc, 4, from_be_bytes(mem_read_as_vec(m.mem, m.pc, 4)))

\* run_until: add_mem_hook of the Access Logger, its buffer holding the seed
AddLogger(m, handle, seed) ==
    [m EXCEPT !.hooks = Append(@, [LoggerHook(handle) EXCEPT !.buf = << seed >>])]

\* run_until: a traced run of two instructions
TracedStepTwo(m, exitpoint, cut) == emu_start(m, m.pc, exitpoint, cut, 2)

\* run_until: the traced instruction
TracedStep(m, exitpoint, cut) == emu_start(m, m.pc, exitpoint, cut, 1)

\* Engine::remove_hook
remove_hook(m, handle) ==
    [m EXCEPT !.hooks = SelectSeq(@, LAMBDA h : h.id # handle)]

\* a log taken from the buffer of the oldest Access Logger still installed
LogOfOldestLogger(hs, handle) ==
    hs[CHOOSE i \in 1..Len(hs) :
          hs[i].kind = "logger" /\ \A j \in 1..(i - 1) : hs[j].kind # "logger"].buf

\* mem_access_sequence.borrow().to_vec(): the buffer shared with the hook's closure
LogOf(hs, handle) == hs[CHOOSE i \in 1..Len(hs) : hs[i].id = handle].buf

\* a state_before that shares the mirror's storage instead of owning a copy: it
\* shows the memory as the traced instruction left it
StateBeforeShared(before, after) == [save(before) EXCEPT !.memories = after.mirror]

\* state_before as run_until returns it: the snapshot saved before the traced
\* instruction, an owned copy that later writes to the mirror do not reach
StateBeforeReturned(before, after) == save(before)

\* run_until from the seeding of the log on: p is the outcome of the untraced prefix
TraceFrom(p, entrypoint, exitpoint, cut2, count) ==
    IF ~IsMapped(p.m.pc, 4)
    THEN Out(p.m, Res("run_until", "err", "READ_UNMAPPED", 0, NoState, NoState, 0, << >>),
             Hist(p.n, p.stop, -1, 0, "seed"), FALSE)
    ELSE LET handle == FreshHandle(p.m.hooks)
         IN Only({ IF Failing(t) \/ t.stop = "bound"
                   THEN Out(t.m, Failed("run_until", t),
                            Hist(p.n, p.stop, p.m.pc, t.n, t.stop), t.stop = "bound")
                   ELSE Out(remove_hook(t.m, handle),
                            Res("run_until", "ok", "", 0,
                                StateBeforeReturned(p.m, t.m),
                                save(remove_hook(t.m, handle)),
                                count + 1, LogOf(t.m.hooks, handle)),
                            [Hist(p.n, p.stop, p.m.pc, t.n, t.stop)
                                EXCEPT !.traced_old = t.m.old], FALSE) :
                   t \in { TracedStep(m1, exitpoint, cut2) :
                           m1 \in { AddLogger([p.m EXCEPT !.old = << >>], handle,
                                              SeedEntry(p.m, entrypoint)) } } })

\* Emulator::run_until
run_until(m, entrypoint, exit, cut1, cut2, count) ==
    Only({ IF Failing(p) \/ p.stop = "bound"
           THEN Out(p.m, Failed("run_until", p), Hist(p.n, p.stop, -1, 0, "none"),
                    p.stop = "bound")
           ELSE TraceFrom(p, entrypoint, Exitpoint(exit), cut2, count) :
           p \in { StateBefore(m, entrypoint, Exitpoint(exit), cut1, count) } })

---------------------------------------------------------------------------
(* The emulator as a state machine: any sequence of run and run_until calls *)

Entrypoints == {0, 12}
Exits == {-1, 12}

NoCall ==
    [op |-> "none", count |-> 0, pc |-> 0, steps |-> 0, hooks |-> {}, snap |-> NoState,
     hist |-> NoHist, again |-> FALSE, after_write |-> FALSE]

\* the call just made: its count, the machine it found, what the engine did,
\* whether it is a save after a save, and whether it follows a successful
\* run_until whose traced instruction stored
Called(op, count, hist) ==
    [op |-> op, count |-> count, pc |-> pc, steps |-> steps, hooks |-> HookIds(hooks),
     snap |-> save(Machine), hist |-> hist, again |-> (op = "save" /\ call.op = "save"),
     after_write |-> (call.op = "run_until" /\ result.status = "ok"
                        /\ call.hist.traced_old # << >>)]

NoRoot ==
    [root |-> << >>, root2 |-> << >>, ordered |-> << >>, later |-> << >>, steps |-> 0,
     done |-> FALSE]

\* no root is being computed
RootIdle ==
    /\ rM = << >>
    /\ rM2 = << >>
    /\ rR = << >>
    /\ rOrder = << >>
    /\ rOut = NoRoot

NoDisk == [dir |-> FALSE, files |-> << >>]

\* no StateChange is being exported
OutputIdle ==
    /\ oChange = << >>
    /\ oFail = "none"
    /\ oDisk = NoDisk
    /\ oOut = "none"

NoWords == [a |-> << >>, b |-> << >>, done |-> FALSE]

\* no register is being encoded
EncodingIdle ==
    /\ eA = << >>
    /\ eB = << >>
    /\ eOut = NoWords

Returned(o) ==
    /\ ~o.bound
    /\ mem' = o.m.mem
    /\ mirror' = o.m.mirror
    /\ regs' = o.m.regs
    /\ pc' = o.m.pc
    /\ steps' = o.m.steps
    /\ hooks' = o.m.hooks
    /\ panicked' = o.m.panicked
    /\ retired' = o.m.retired
    /\ written' = o.m.written
    /\ diverged' = o.m.diverged
    /\ result' = o.res
    /\ UNCHANGED debug
    /\ UNCHANGED rootVars
    /\ UNCHANGED outVars
    /\ UNCHANGED encVars

Init ==
    /\ mem = LoadedMem
    /\ mirror = LoadedMirror
    /\ regs = [r \in RegIds |-> 0]
    /\ pc = 0
    /\ steps = 0
    /\ hooks = << MirrorHook, CodeHook >>
    /\ debug \in BOOLEAN
    /\ panicked = FALSE
    /\ retired = 0
    /\ written = {}
    /\ diverged = FALSE
    /\ call = NoCall
    /\ result = Res("none", "ok", "", 0, NoState, NoState, 0, << >>)
    /\ RootIdle
    /\ OutputIdle
    /\ EncodingIdle

Run ==
    \E entrypoint \in Entrypoints, exit \in Exits, count \in 0..MaxCount :
        \E cut \in Cuts(count) :
            \E o \in { run(Machine, entrypoint, exit, cut, count) } :
                /\ ~panicked
                /\ Returned(o)
                /\ call' = Called("run", count, o.hist)

RunUntil ==
    \E entrypoint \in Entrypoints, exit \in Exits, count \in 0..MaxCount :
        \E cut1 \in IF count = 0 THEN {-1} ELSE Cuts(count), cut2 \in Cuts(1) :
            \E o \in { run_until(Machine, entrypoint, exit, cut1, cut2, count) } :
                /\ ~panicked
                /\ Returned(o)
                /\ call' = Called("run_until", count, o.hist)

\* a call of Emulator::save
Save ==
    /\ ~panicked
    /\ Returned(Out(Saved(Machine),
                    Res("save", "ok", "", 0, NoState, save(Machine), 0, << >>),
                    NoHist, FALSE))
    /\ call' = Called("save", 0, NoHist)

Next == Run \/ RunUntil \/ Save

Spec == Init /\ [][Next]_vars

\* the data bytes at which engine memory may differ from the mirror when the
\* emulator starts: the byte the program stores to, and the byte next to it,
\* which the program only loads
DivergedBytes == {DataBase, DataBase + 1}

\* an emulator whose mirror missed a write the engine's memory got: the engine
\* holds 7 at one data byte, the mirror holds nothing there
InitDiverged ==
    /\ \E a \in DivergedBytes : mem = [LoadedMem EXCEPT ![a] = 7]
    /\ mirror = LoadedMirror
    /\ regs = [r \in RegIds |-> 0]
    /\ pc = 0
    /\ steps = 0
    /\ hooks = << MirrorHook, CodeHook >>
    /\ debug \in BOOLEAN
    /\ panicked = FALSE
    /\ retired = 0
    /\ written = {}
    /\ diverged = FALSE
    /\ call = NoCall
    /\ result = Res("none", "ok", "", 0, NoState, NoState, 0, << >>)
    /\ RootIdle
    /\ OutputIdle
    /\ EncodingIdle

SpecDiverged == InitDiverged /\ [][Next]_vars

---------------------------------------------------------------------------
(* Claims about run and run_until, checked under Spec *)

Traced == call.op = "run_until" /\ result.status = "ok"

\* the instruction the traced run executed, "none" when it executed nothing
TracedOp ==
    IF call.hist.traced_n = 1 THEN InstrAt(call.hist.traced_pc).op ELSE "none"

\* C1: after any sequence of run and run_until calls, the Shadow Memory Mirror
\* holds, at every byte address written through a WRITE event the permanent hook
\* saw, the byte the engine's live memory holds there.
C1_MirrorEqualsEngine ==
    \A a \in written : MirrorByte(mirror, a) = mem[a]

\* C1 witness: both stores of the program were observed, the byte at 0x1000 was
\* written twice (0x2A, then 0x54) and the halfword at 0x1006 holds its copy.
C1_Witness ==
    /\ {DataBase, DataBase + 6, DataBase + 7} \subseteq written
    /\ mem[DataBase] = 84
    /\ mem[DataBase + 6] = 84

\* C2: whenever run_until returns, with a StateChange or with an error, the hooks
\* installed on the engine are those installed before the call.
C2_LoggerRemovedOnEveryExit ==
    (call.op = "run_until" /\ result.status # "abort") => HookIds(hooks) = call.hooks

\* C3 as stated: the first entry of the log of every successful run_until is a
\* read of size 4 at the program counter the engine had when run_until was called.
C3_FetchAtCallTimePc ==
    Traced =>
        /\ Len(result.access) >= 1
        /\ result.access[1].write = FALSE
        /\ result.access[1].size = 4
        /\ result.access[1].addr = call.pc

\* C3 amended: the first entry of the log of every successful run_until is a read
\* of size 4 at the program counter the engine has when the log is seeded, the
\* one state_before records (after the count untraced instructions), with the
\* instruction word there as its value; for count = 0 that is the program counter
\* at call time.
C3_FetchAtSeedTimePc ==
    Traced =>
        /\ Len(result.access) >= 1
        /\ result.access[1].write = FALSE
        /\ result.access[1].size = 4
        /\ result.access[1].addr = result.state_before.regs[PcReg]
        /\ result.access[1].value
             = from_be_bytes(Encode(InstrAt(result.state_before.regs[PcReg])))
        /\ (call.count = 0 => result.access[1].addr = call.pc)

\* C3 witness: a successful run_until with count > 0 whose untraced instructions
\* moved the program counter, so the seeded address is not the one at call time.
C3_Witness ==
    /\ Traced
    /\ call.count > 0
    /\ call.hist.prefix_n > 0
    /\ result.access[1].addr # call.pc

\* C4: the log has length 1 when the traced instruction has no data-memory
\* operand, and length 3 when it performs one load and one store, the load's
\* entry before the store's.
C4_LogLengths ==
    Traced =>
        /\ (TracedOp \in {"addi", "nop"} => Len(result.access) = 1)
        /\ (TracedOp = "copy" =>
                /\ Len(result.access) = 3
                /\ result.access[2].write = FALSE
                /\ result.access[3].write = TRUE)

\* C5: run_until with count = 0 takes state_before with no execution: it is the
\* snapshot save() gives right before the call, and the StateChange has step 1.
C5_CountZeroSnapshotsAtOnce ==
    (Traced /\ call.count = 0) =>
        /\ result.state_before = call.snap
        /\ result.step = 1

\* C5 witness: a successful run_until with count = 0 on a machine that has
\* executed before, whose traced instruction ran.
C5_Witness ==
    /\ Traced
    /\ call.count = 0
    /\ call.steps > 0
    /\ call.hist.traced_n = 1

\* C6 as stated: every successful run_until executes exactly one instruction
\* between its two snapshots.
C6_ExactlyOneInstruction ==
    Traced => result.state_after.steps = result.state_before.steps + 1

\* C6 amended: every successful run_until executes at most one instruction
\* between its two snapshots: exactly one when the traced run ends by its count
\* of 1, none when the engine stops it at once, at the exitpoint or by timeout.
C6_AtMostOneInstruction ==
    Traced =>
        /\ call.hist.traced_stop \in {"count", "exit", "timeout"}
        /\ (call.hist.traced_stop = "count"
                => result.state_after.steps = result.state_before.steps + 1)
        /\ (call.hist.traced_stop \in {"exit", "timeout"}
                => result.state_after.steps = result.state_before.steps)

\* C6 witness: a successful run_until whose traced run stopped at the exitpoint
\* before executing anything.
C6_Witness ==
    /\ Traced
    /\ call.hist.traced_stop = "exit"
    /\ result.state_after.steps = result.state_before.steps

\* C7 as stated: a successful run_until with count > 0 executes exactly count
\* untraced instructions before state_before.
C7_ExactlyCountUntraced ==
    (Traced /\ call.count > 0) => result.state_before.steps = call.steps + call.count

\* C7 amended: a successful run_until with count > 0 executes at most count
\* untraced instructions before state_before: exactly count when the untraced run
\* ends by its count, fewer when the engine stops it first, at the exitpoint or
\* by timeout.
C7_AtMostCountUntraced ==
    (Traced /\ call.count > 0) =>
        /\ result.state_before.steps >= call.steps
        /\ result.state_before.steps <= call.steps + call.count
        /\ call.hist.prefix_stop \in {"count", "exit", "timeout"}
        /\ (call.hist.prefix_stop = "count"
                => result.state_before.steps = call.steps + call.count)
        /\ (call.hist.prefix_stop \in {"exit", "timeout"}
                => result.state_before.steps < call.steps + call.count)

\* C7 witness: a successful run_until with count > 0 whose untraced run was
\* stopped at the exitpoint before it had executed count instructions.
C7_Witness ==
    /\ Traced
    /\ call.count > 0
    /\ call.hist.prefix_stop = "exit"
    /\ result.state_before.steps < call.steps + call.count

\* C8: the step counter equals the number of instructions retired, and a
\* successful run returns it.
C8_StepsCountRetired ==
    /\ steps = retired
    /\ (call.op = "run" /\ result.status = "ok" => result.value = retired)

\* the engine raised an error during the last call: in emu_start of the untraced
\* prefix or of the traced step (or of run), or in the read that seeds the log
EngineErrorRaised ==
    \/ call.hist.prefix_stop = "error"
    \/ call.hist.traced_stop \in {"error", "seed"}

TracedWrite == Traced /\ call.hist.traced_old # << >>

\* the address an instruction stores to
WriteAddr(ins) == IF ins.op = "copy" THEN ins.addr2 ELSE ins.addr

EventsOf(ins, m) ==
    LET value(addr) == BytesValue(mem_read_as_vec(m, addr, ins.size))
        reads == << MemAccess(FALSE, ins.addr, ins.size, 0),
                    MemAccess(FALSE, ins.addr, ins.size, value(ins.addr)) >>
    IN CASE ins.op = "store" -> << MemAccess(TRUE, ins.addr, ins.size, value(ins.addr)) >>
         [] ins.op = "load" -> reads
         [] ins.op = "copy" ->
                Append(reads, MemAccess(TRUE, ins.addr2, ins.size, value(ins.addr2)))
         [] OTHER -> << >>

\* C17: the log a run_until returns is the seeded fetch followed by the memory
\* events of that call's traced instruction, in the order the engine emitted
\* them, and nothing else: no event of the untraced prefix and no event of an
\* earlier call, an earlier run_until that ended in an error included.
C17_LogHoldsOnlyTracedEvents ==
    Traced =>
        result.access =
            << MemAccess(FALSE, call.hist.traced_pc, 4,
                         from_be_bytes(Encode(InstrAt(call.hist.traced_pc)))) >>
            \o (IF call.hist.traced_n = 1
                THEN EventsOf(InstrAt(call.hist.traced_pc), mem)
                ELSE << >>)

\* C17 witness: a successful run_until on an engine that still carries the
\* Access Logger of an earlier, failed run_until; its traced instruction, the
\* copy, emitted three memory events.
C17_Witness ==
    /\ Traced
    /\ Cardinality(call.hooks) > 2
    /\ TracedOp = "copy"
    /\ Len(result.access) = 4

\* the emulator a call left, as the next call finds it
AtRest(m) == [m EXCEPT !.err = "", !.val = 0, !.old = << >>]

\* run_until(entrypoint, exit, timeout, 0) on an emulator; cut is the effect of
\* the timeout on the traced run
CountZeroCall(m, entrypoint, exit, cut) == run_until(m, entrypoint, exit, -1, cut, 0)

\* C18 as stated: two successive successful run_until(entry, .., 0) calls with
\* the same arguments trace two consecutive instructions.
C18_SuccessiveCallsTraceConsecutive ==
    ~panicked =>
        \A entrypoint \in Entrypoints, exit \in Exits, cut \in Cuts(1) :
            \A o1 \in { CountZeroCall(Machine, entrypoint, exit, cut) } :
                o1.res.status = "ok" =>
                    \A cut2 \in Cuts(1) :
                        \A o2 \in { CountZeroCall(AtRest(o1.m), entrypoint, exit, cut2) } :
                            o2.res.status = "ok"
                                => o2.hist.traced_pc = o1.hist.traced_pc + 4

\* C18 amended: with count = 0 the entrypoint has no effect: the traced run
\* starts at the engine's current program counter and the outcome is the same
\* for every entrypoint; a second such call starts where the first one left the
\* engine: at the next instruction when the first executed its instruction, at
\* the same instruction when the engine stopped the first at once (exitpoint,
\* timeout).
C18_TracedStartsAtCurrentPc ==
    ~panicked =>
        \A entrypoint \in Entrypoints, exit \in Exits, cut \in Cuts(1) :
            \A o1 \in { CountZeroCall(Machine, entrypoint, exit, cut) } :
                /\ \A other \in Entrypoints \ {entrypoint} :
                      CountZeroCall(Machine, other, exit, cut) = o1
                /\ o1.res.status = "ok" =>
                      /\ o1.hist.traced_pc = pc
                      /\ o1.res.state_before = save(Machine)
                      /\ o1.hist.traced_stop = "count" => o1.hist.traced_n = 1
                      /\ o1.hist.traced_stop \in {"exit", "timeout"} => o1.hist.traced_n = 0
                      /\ \A cut2 \in Cuts(1) :
                            \A o2 \in { CountZeroCall(AtRest(o1.m), entrypoint, exit, cut2) } :
                                o2.res.status = "ok" =>
                                    /\ o2.hist.traced_pc = o1.m.pc
                                    /\ o2.hist.traced_pc
                                          = o1.hist.traced_pc + 4 * o1.hist.traced_n

\* C18 witness: a successful run_until with count = 0 traced the instruction at
\* the engine's program counter, an address that is no entrypoint, and the
\* engine can go on to the next instruction.
C18_Witness ==
    /\ Traced
    /\ call.count = 0
    /\ call.pc \notin Entrypoints
    /\ call.hist.traced_pc = call.pc
    /\ call.hist.traced_n = 1
    /\ pc = call.pc + 4

\* C19: the step field of every StateChange returned by run_until equals
\* state_after.steps, after any sequence of earlier calls.
C19_StepIsStateAfterSteps ==
    Traced => result.step = result.state_after.steps

\* C12: save() is a pure read: a call of save leaves the engine's registers and
\* memory, the mirror, the step counter and the installed hooks unchanged, and a
\* save that follows a save returns the snapshot the first returned.
C12_SaveIsPureRead ==
    [][call'.op = "save" =>
          /\ UNCHANGED << mem, mirror, regs, pc, steps, hooks >>
          /\ result'.state_after = save(Machine)
          /\ (call.op = "save" => result'.state_after = result.state_after)]_vars

\* C12 witness: two saves in a row, after the program has stored to data memory.
C12_Witness ==
    /\ call.op = "save"
    /\ call.again
    /\ steps > 0
    /\ DataBase \in DOMAIN result.state_after.memories

---------------------------------------------------------------------------
(* EmulatorState::state_root *)

\* the largest word index of the memory images state_root is applied to
MaxWord == 3
\* the step counter of the later snapshot state_root is applied to
MaxRootSteps == 1

\* the trie as the map of what was inserted: a later insert of a key replaces
\* the earlier one
TrieInsert(trie, key, value) ==
    [k \in DOMAIN trie \cup {key} |-> IF k = key THEN value ELSE trie[k]]

\* trie.commit(): the root binds the set of (key, value) pairs of the trie, and
\* nothing else (the hash is taken as collision-free)
Commit(trie) == { << k, trie[k] >> : k \in DOMAIN trie }

\* a key that drops one more address bit
shortend_addr_coarse(addr) == addr \div 8

\* (addr >> 2) as u32
shortend_addr(addr) == addr \div 4

\* the addresses of a memory image in ascending order, the order a BTreeMap
\* iterates in
RECURSIVE SortedAddrs(_)
SortedAddrs(S) ==
    IF S = {} THEN << >>
    ELSE LET a == CHOOSE x \in S : \A y \in S : x <= y
         IN << a >> \o SortedAddrs(S \ {a})

\* for (addr, v) in mem { trie.insert(&shortend_addr.to_be_bytes(), v.as_slice()) },
\* the entries taken in the given order
RECURSIVE InsertMemory(_, _, _)
InsertMemory(trie, memories, order) ==
    IF order = << >> THEN trie
    ELSE Only({ InsertMemory(t, memories, Tail(order)) :
                t \in { TrieInsert(trie, to_be_bytes(shortend_addr(Head(order))),
                                   memories[Head(order)]) } })

\* rlp: a byte string as a list item
RlpItem(b) ==
    IF Len(b) = 1 /\ b[1] < 128 THEN b ELSE << 128 + Len(b) >> \o b

\* rlp: the header of a list with the given payload
RlpList(payload) ==
    IF Len(payload) < 56 THEN << 192 + Len(payload) >> \o payload
    ELSE << 248, Len(payload) >> \o payload

\* a value below 2^31 as a u64, in its eight big-endian bytes
u64_be(v) == << 0, 0, 0, 0 >> \o to_be_bytes(v)

\* the sum of two 32-bit unsigned integers given by their four big-endian
\* bytes, with the carry out of the top byte
add_u32(a, b) ==
    LET lo == (a[3] + b[3]) * 256 + a[4] + b[4]
        hi == (a[1] + b[1]) * 256 + a[2] + b[2] + (lo \div 65536)
    IN [word |-> << (hi \div 256) % 256, hi % 256, (lo \div 256) % 256, lo % 256 >>,
        carry |-> hi \div 65536]

\* ((reg_id as u64) << 32) + v for a u64 v given by its eight big-endian bytes:
\* the shift puts the identifier in the upper four bytes and zeros in the lower
\* four, so the sum adds the identifier to the upper half of v and keeps its
\* lower half.  word: the bytes to_be_bytes() gives when the addition wraps;
\* overflow: the sum does not fit 64 bits (a panic in a build with overflow
\* checks)
encoded_register(reg_id, v) ==
    LET upper == add_u32(to_be_bytes(reg_id), SubSeq(v, 1, 4))
    IN [word |-> upper.word \o SubSeq(v, 5, 8), overflow |-> upper.carry = 1]

\* the register file as an rlp list, one item per register
RECURSIVE EncodeRegs(_, _)
EncodeRegs(rs, ids) ==
    IF ids = << >> THEN << >>
    ELSE RlpItem(encoded_register(Head(ids), u64_be(rs[Head(ids)])).word)
            \o EncodeRegs(rs, Tail(ids))

\* state_root with the memory entries inserted in the given order; the register
\* file goes in last, under the key [0,0,0,0]
StateRootInOrder(memories, rs, order) ==
    LET trie == InsertMemory(<< >>, memories, order)
        encoded == RlpList(EncodeRegs(rs, SortedAddrs(DOMAIN rs)))
    IN Commit(TrieInsert(trie, to_be_bytes(0), encoded))

\* a root that also commits to the step counter, under the last key
state_root_with_steps(st) ==
    StateRootInOrder(st.memories, st.regs, SortedAddrs(DOMAIN st.memories))
        \cup { << to_be_bytes(U32Max), to_be_bytes(st.steps) >> }

\* EmulatorState::state_root
state_root(st) == StateRootInOrder(st.memories, st.regs, SortedAddrs(DOMAIN st.memories))

EmulatorState(rs, memories, n) == [regs |-> rs, memories |-> memories, steps |-> n]

---------------------------------------------------------------------------
(* state_root applied to drawn snapshots *)

RootAddrs == { 4 * i : i \in 0..MaxWord }
RootWords == { << 0, 0, 0, 1 >>, << 0, 0, 1, 0 >> }

\* the sparse memory images over the word-aligned addresses
MemImages == UNION { [D -> RootWords] : D \in SUBSET RootAddrs }
RegFiles == [RegIds -> {0, 7}]

\* the orders a set of addresses can be taken in
Orders(S) ==
    { o \in [1..Cardinality(S) -> S] : \A i, j \in 1..Cardinality(S) : o[i] = o[j] => i = j }

\* the images that differ from an image at exactly one address
OneOff(M) ==
    { N \in MemImages :
        \E a \in RootAddrs :
            /\ \A b \in RootAddrs \ {a} :
                  (b \in DOMAIN M <=> b \in DOMAIN N) /\ (b \in DOMAIN M => M[b] = N[b])
            /\ \/ (a \in DOMAIN M) # (a \in DOMAIN N)
               \/ a \in DOMAIN M /\ a \in DOMAIN N /\ M[a] # N[a] }

EmulatorAtRest ==
    /\ mem = LoadedMem
    /\ mirror = LoadedMirror
    /\ regs = [r \in RegIds |-> 0]
    /\ pc = 0
    /\ steps = 0
    /\ hooks = << MirrorHook, CodeHook >>
    /\ debug = TRUE
    /\ panicked = FALSE
    /\ retired = 0
    /\ written = {}
    /\ diverged = FALSE
    /\ call = NoCall
    /\ result = Res("none", "ok", "", 0, NoState, NoState, 0, << >>)

InitRoot ==
    /\ EmulatorAtRest
    /\ rM \in MemImages
    /\ rM2 \in OneOff(rM)
    /\ rR \in RegFiles
    /\ rOrder \in Orders(DOMAIN rM)
    /\ rOut = NoRoot
    /\ OutputIdle
    /\ EncodingIdle

\* state_root of the two snapshots, of the first with its entries inserted in
\* the drawn order, and of the first taken at the later step counter
ComputeRoots ==
    /\ ~rOut.done
    /\ rOut' = [root |-> state_root(EmulatorState(rR, rM, 0)),
                root2 |-> state_root(EmulatorState(rR, rM2, 0)),
                ordered |-> StateRootInOrder(rM, rR, rOrder),
                later |-> state_root(EmulatorState(rR, rM, MaxRootSteps)),
                steps |-> MaxRootSteps,
                done |-> TRUE]
    /\ UNCHANGED << rM, rM2, rR, rOrder >>
    /\ UNCHANGED emuVars
    /\ UNCHANGED outVars
    /\ UNCHANGED encVars

NextRoot == ComputeRoots

SpecRoot == InitRoot /\ [][NextRoot]_vars

\* C9: the root does not depend on the order the memory entries are inserted in:
\* inserting them in any order gives the root state_root gives.
C9_RootIsOrderIndependent ==
    rOut.done => rOut.ordered = rOut.root

\* C9 witness: a root was computed for an image of four words, address 0 among
\* them, inserted in descending order.
C9_Witness ==
    /\ rOut.done
    /\ DOMAIN rM = RootAddrs
    /\ rOrder[1] > rOrder[2]
    /\ rOrder[2] > rOrder[3]
    /\ rOrder[3] > rOrder[4]

\* C10: two memory images that differ in an (address, value) pair have
\* different roots under the same register file.
C10_RootsDistinguishImages ==
    (rOut.done /\ rM # rM2) => rOut.root # rOut.root2

\* C11: the root depends only on the memory image and the register file: two
\* snapshots with equal regs and equal memories and different step counters
\* have the same root.
C11_RootIgnoresSteps ==
    rOut.done => rOut.later = rOut.root

\* C11 witness: roots were computed for a non-empty image taken at step 0 and
\* at a later step.
C11_Witness ==
    /\ rOut.done
    /\ rOut.steps > 0
    /\ DOMAIN rM # {}

---------------------------------------------------------------------------
(* StateChange::output_to *)

StateChange(sb, sa, step, access) ==
    [state_before |-> sb, state_after |-> sa, step |-> step, access |-> access]

\* serde_json::to_writer_pretty: the text written for a value
Json(v) == [json |-> v]

\* the I/O operations of output_to, in the order it performs them
IoSteps ==
    << "create_dir_all",
       "open before_state.json", "write before_state.json",
       "open after_state.json", "write after_state.json",
       "open mem_access.json", "write mem_access.json" >>

\* the disk after one I/O operation that succeeded: create_dir_all makes the
\* directory, open (write, create, truncate) leaves an empty file, to_writer_pretty
\* fills it
IoDone(sc, disk, io) ==
    LET put(name, text) ==
            [disk EXCEPT !.files =
                [f \in DOMAIN disk.files \cup {name} |->
                    IF f = name THEN text ELSE disk.files[f]]]
    IN CASE io = "create_dir_all" -> [disk EXCEPT !.dir = TRUE]
         [] io = "open before_state.json" -> put("before_state.json", << >>)
         [] io = "write before_state.json" -> put("before_state.json", Json(sc.state_before))
         [] io = "open after_state.json" -> put("after_state.json", << >>)
         [] io = "write after_state.json" -> put("after_state.json", Json(sc.state_after))
         [] io = "open mem_access.json" -> put("mem_access.json", << >>)
         [] io = "write mem_access.json" -> put("mem_access.json", Json(sc.access))

\* StateChange::output_to from its i-th I/O operation on: every operation is
\* followed by unwrap(), which panics on an Err; the function returns ()
RECURSIVE output_from(_, _, _, _)
output_from(sc, disk, fail, i) ==
    IF i > Len(IoSteps) THEN [disk |-> disk, status |-> "ok"]
    ELSE IF IoSteps[i] = fail THEN [disk |-> disk, status |-> "abort"]
    ELSE Only({ output_from(sc, d, fail, i + 1) : d \in { IoDone(sc, disk, IoSteps[i]) } })

\* StateChange::output_to
output_to(sc, disk, fail) == output_from(sc, disk, fail, 1)

\* the snapshots of the exported StateChanges: the emulator at rest, and after
\* one store
OutSnapshots ==
    { EmulatorState([r \in RegIds \cup {PcReg} |-> 0], LoadedMirror, 0),
      EmulatorState([r \in RegIds \cup {PcReg} |-> 4],
                    write_value(LoadedMirror, DataBase, 1, 42), 1) }

OutLogs ==
    { << MemAccess(FALSE, 0, 4, 1) >>,
      << MemAccess(FALSE, 4, 4, 2), MemAccess(TRUE, DataBase, 1, 42) >> }

\* the output directory before the export: missing, empty, or holding the
\* files of an earlier export
Disks ==
    { NoDisk,
      [dir |-> TRUE, files |-> << >>],
      [dir |-> TRUE,
       files |-> [f \in {"before_state.json", "after_state.json", "mem_access.json"}
                    |-> Json("old")]] }

InitOut ==
    /\ EmulatorAtRest
    /\ RootIdle
    /\ oChange \in { StateChange(sb, sa, 1, log) :
                        sb \in OutSnapshots, sa \in OutSnapshots, log \in OutLogs }
    /\ oFail \in {"none"} \cup { IoSteps[i] : i \in 1..Len(IoSteps) }
    /\ oDisk \in Disks
    /\ oOut = "none"
    /\ EncodingIdle

\* a call of output_to on the drawn StateChange
OutputTo ==
    /\ oOut = "none"
    /\ \E o \in { output_to(oChange, oDisk, oFail) } :
          /\ oDisk' = o.disk
          /\ oOut' = o.status
    /\ UNCHANGED << oChange, oFail >>
    /\ UNCHANGED emuVars
    /\ UNCHANGED rootVars
    /\ UNCHANGED encVars

NextOut == OutputTo

SpecOut == InitOut /\ [][NextOut]_vars

\* C14: an I/O error while exporting a StateChange is returned to the caller as
\* an error outcome; it does not abort the process.
C14_IoErrorsPropagate ==
    (oOut # "none" /\ oFail # "none") => oOut = "err"

---------------------------------------------------------------------------
(* The register encoding of state_root, applied to drawn pairs *)

\* 64-bit register values by their big-endian bytes: small ones, ones that
\* reach into the upper four bytes, and ones close to the largest
U64Values ==
    { << t, t, t, h, 0, 0, 0, l >> : t \in {0, 255}, h \in {0, 1, 255}, l \in {0, 1} }

RegPairs == (RegIds \cup {PcReg}) \X U64Values

InitEnc ==
    /\ EmulatorAtRest
    /\ RootIdle
    /\ OutputIdle
    /\ eA \in RegPairs
    /\ eB \in RegPairs
    /\ eOut = NoWords

\* the combined words state_root computes for the two pairs
EncodeRegisters ==
    /\ ~eOut.done
    /\ eOut' = [a |-> encoded_register(eA[1], eA[2]),
                b |-> encoded_register(eB[1], eB[2]),
                done |-> TRUE]
    /\ UNCHANGED << eA, eB >>
    /\ UNCHANGED emuVars
    /\ UNCHANGED rootVars
    /\ UNCHANGED outVars

NextEnc == EncodeRegisters

SpecEnc == InitEnc /\ [][NextEnc]_vars

\* C20: the combined word (reg_id << 32) + value determines the (register
\* identifier, value) pair for 64-bit values: two different pairs never give the
\* same word, and the addition never overflows 64 bits.
C20_EncodingIsUnambiguous ==
    eOut.done =>
        /\ ~eOut.a.overflow
        /\ ~eOut.b.overflow
        /\ (eA # eB => eOut.a.word # eOut.b.word)

====
